---- MODULE Spec2Model ----
(***************************************************************************)
(* Model of src/src/file_manager/file_handle.rs: FileHandle, a store of    *)
(* fixed-size pages over one backing file with a textual counter header.   *)
(*                                                                         *)
(* Byte strings (the file, page buffers, header text) are kept run-length  *)
(* encoded: a sequence of runs <<b, n>>, byte b repeated n >= 1 times,     *)
(* adjacent runs holding different bytes.  The encoding is canonical, so   *)
(* two byte strings are equal exactly when their encodings are equal, and  *)
(* PAGE_SIZE keeps its real value.                                         *)
(***************************************************************************)
EXTENDS Integers, Sequences, FiniteSets, TLC

PAGE_SIZE == 4096

\* Bounds of the model.
MaxPages == 2
MaxCount == 2
\* Flushes of the header over the life of the file.
MaxFlush == 1

\* ASCII codes the code names.
PIPE == 124
CHAR_0 == 48
CHAR_T == 84
CHAR_N == 78

-----------------------------------------------------------------------------
\* Run-length encoded byte strings.

Empty == << >>

Run(b, n) == IF n > 0 THEN << <<b, n>> >> ELSE << >>

Cat(s, t) ==
  IF s = << >> THEN t
  ELSE IF t = << >> THEN s
  ELSE IF s[Len(s)][1] = t[1][1]
       THEN SubSeq(s, 1, Len(s) - 1)
              \o << <<t[1][1], s[Len(s)][2] + t[1][2]>> >>
              \o Tail(t)
       ELSE s \o t

RECURSIVE Size(_)
Size(s) == IF s = << >> THEN 0 ELSE s[1][2] + Size(Tail(s))

RECURSIVE Take(_, _)
Take(s, n) ==
  IF n <= 0 \/ s = << >> THEN << >>
  ELSE IF s[1][2] >= n THEN << <<s[1][1], n>> >>
  ELSE <<s[1]>> \o Take(Tail(s), n - s[1][2])

RECURSIVE Drop(_, _)
Drop(s, n) ==
  IF s = << >> THEN << >>
  ELSE IF n <= 0 THEN s
  ELSE IF s[1][2] > n THEN << <<s[1][1], s[1][2] - n>> >> \o Tail(s)
  ELSE Drop(Tail(s), n - s[1][2])

\* The bytes of s at offsets [from, from + n).
Slice(s, from, n) == Take(Drop(s, from), n)

RECURSIVE FromBytes(_)
FromBytes(q) ==
  IF q = << >> THEN << >> ELSE Cat(Run(q[1], 1), FromBytes(Tail(q)))

RECURSIVE ToBytes(_)
ToBytes(s) ==
  IF s = << >> THEN << >>
  ELSE [i \in 1..s[1][2] |-> s[1][1]] \o ToBytes(Tail(s))

-----------------------------------------------------------------------------
\* The file as std::fs::File presents it.

\* File::write at position p of a file holding f: a write past the end
\* leaves a hole of zero bytes; a write of no bytes changes nothing.
FileWrite(f, p, data) ==
  IF Size(data) = 0 THEN f
  ELSE Cat(Cat(Cat(Take(f, p), Run(0, p - Size(f))), data),
           Drop(f, p + Size(data)))

\* File::read at position p into a buffer of cap bytes: the bytes
\* transferred, fewer than cap only at end of file.
FileRead(f, p, cap) == Slice(f, p, cap)

-----------------------------------------------------------------------------
\* format!("{}|{}|{}|{}", ...)

RECURSIVE Digits(_)
Digits(n) ==
  IF n < 10 THEN <<CHAR_0 + n>>
  ELSE Digits(n \div 10) \o <<CHAR_0 + (n % 10)>>

FormatCounters(r, w, a, n) ==
  FromBytes(Digits(r) \o <<PIPE>> \o Digits(w) \o <<PIPE>>
            \o Digits(a) \o <<PIPE>> \o Digits(n))

-----------------------------------------------------------------------------
\* Read::read_to_string: the bytes must be valid UTF-8.  Utf8Step is the
\* decoder's state after one more byte: need continuation bytes are still
\* owed, the next of them within lo..hi.

Utf8Start == [bad |-> FALSE, need |-> 0, lo |-> 128, hi |-> 191]
Utf8Bad == [bad |-> TRUE, need |-> 0, lo |-> 128, hi |-> 191]
Utf8Lead(k, l, h) == [bad |-> FALSE, need |-> k, lo |-> l, hi |-> h]

Utf8Step(u, b) ==
  IF u.bad THEN u
  ELSE IF u.need > 0
       THEN IF b >= u.lo /\ b <= u.hi
            THEN Utf8Lead(u.need - 1, 128, 191) ELSE Utf8Bad
  ELSE IF b <= 127 THEN Utf8Start
  ELSE IF b >= 194 /\ b <= 223 THEN Utf8Lead(1, 128, 191)
  ELSE IF b = 224 THEN Utf8Lead(2, 160, 191)
  ELSE IF b = 237 THEN Utf8Lead(2, 128, 159)
  ELSE IF b >= 225 /\ b <= 239 THEN Utf8Lead(2, 128, 191)
  ELSE IF b = 240 THEN Utf8Lead(3, 144, 191)
  ELSE IF b >= 241 /\ b <= 243 THEN Utf8Lead(3, 128, 191)
  ELSE IF b = 244 THEN Utf8Lead(3, 128, 143)
  ELSE Utf8Bad

\* n copies of byte b; a step that leaves the state as it was does so for
\* every further copy.
RECURSIVE Utf8Run(_, _, _)
Utf8Run(u, b, n) ==
  IF n = 0 THEN u
  ELSE LET v == Utf8Step(u, b)
       IN IF v = u THEN u ELSE Utf8Run(v, b, n - 1)

RECURSIVE Utf8Scan(_, _)
Utf8Scan(u, s) ==
  IF s = << >> THEN u
  ELSE Utf8Scan(Utf8Run(u, s[1][1], s[1][2]), Tail(s))

IsUtf8(s) == LET u == Utf8Scan(Utf8Start, s) IN ~u.bad /\ u.need = 0

-----------------------------------------------------------------------------
\* The header parser of FileHandle::new.

\* str::split("|"): the fields between the delimiters, empty ones included.
RECURSIVE SplitFrom(_, _)
SplitFrom(s, cur) ==
  IF s = << >> THEN <<cur>>
  ELSE IF s[1][1] = PIPE
       THEN <<cur>> \o [i \in 1..(s[1][2] - 1) |-> Empty]
              \o SplitFrom(Tail(s), Empty)
       ELSE SplitFrom(Tail(s), Cat(cur, <<s[1]>>))

Split(s) == SplitFrom(s, Empty)

\* str::trim: the single-byte characters of Unicode White_Space.
WhiteSpace == {9, 10, 11, 12, 13, 32}

RECURSIVE TrimStart(_)
TrimStart(s) ==
  IF s # << >> /\ s[1][1] \in WhiteSpace THEN TrimStart(Tail(s)) ELSE s

RECURSIVE TrimEnd(_)
TrimEnd(s) ==
  IF s # << >> /\ s[Len(s)][1] \in WhiteSpace
  THEN TrimEnd(SubSeq(s, 1, Len(s) - 1)) ELSE s

Trim(s) == TrimEnd(TrimStart(s))

\* .filter(|s| !s.is_empty() && !s.starts_with("0"))
KeepField(s) == s # << >> /\ s[1][1] # CHAR_0

\* str::parse::<usize>: an optional '+', then decimal digits only, the
\* value at most usize::MAX (64 bits).
USIZE_MAX_DIGITS == <<1, 8, 4, 4, 6, 7, 4, 4, 0, 7, 3, 7, 0, 9, 5, 5, 1, 6, 1, 5>>

LexLeq(a, b) ==
  \/ a = b
  \/ \E i \in 1..Len(a) :
       /\ a[i] < b[i]
       /\ \A j \in 1..(i - 1) : a[j] = b[j]

RECURSIVE DigitsValue(_)
DigitsValue(q) ==
  IF q = << >> THEN 0
  ELSE 10 * DigitsValue(SubSeq(q, 1, Len(q) - 1)) + q[Len(q)]

ParseUsize(s) ==
  LET body == IF s # << >> /\ s[1][1] = 43 /\ Size(s) > 1
              THEN Drop(s, 1) ELSE s
      allDigits == /\ body # << >>
                   /\ \A i \in 1..Len(body) :
                        body[i][1] >= CHAR_0 /\ body[i][1] <= CHAR_0 + 9
      sig == IF body # << >> /\ body[1][1] = CHAR_0 THEN Tail(body) ELSE body
      fits == \/ Size(sig) < Len(USIZE_MAX_DIGITS)
              \/ /\ Size(sig) = Len(USIZE_MAX_DIGITS)
                 /\ LexLeq([i \in 1..Size(sig) |-> ToBytes(sig)[i] - CHAR_0],
                           USIZE_MAX_DIGITS)
  IN IF allDigits /\ fits
     THEN [ok |-> TRUE,
           val |-> DigitsValue([i \in 1..Size(sig) |-> ToBytes(sig)[i] - CHAR_0])]
     ELSE [ok |-> FALSE, val |-> 0]

RECURSIVE SelectFields(_)
SelectFields(fs) ==
  IF fs = << >> THEN << >>
  ELSE IF KeepField(Trim(fs[1]))
       THEN <<Trim(fs[1])>> \o SelectFields(Tail(fs))
       ELSE SelectFields(Tail(fs))

\* Mutant: more than four kept fields are accepted, the first four used.
ParseHeader_atleast4(text) ==
  LET kept == SelectFields(Split(text))
      parsed == [i \in 1..Len(kept) |-> ParseUsize(kept[i])]
  IN IF \E i \in 1..Len(kept) : ~parsed[i].ok
     THEN [panic |-> TRUE, counters |-> <<0, 0, 0, 0>>]
     ELSE IF Len(kept) < 4
          THEN [panic |-> FALSE, counters |-> <<0, 0, 0, 0>>]
          ELSE [panic |-> FALSE,
                counters |-> [i \in 1..4 |-> parsed[i].val]]

\* The outcome of lines 24-41 on the text read from the file: a panic when
\* a kept field does not parse, else the four counters, all zero unless
\* exactly four fields were kept.
ParseHeader(text) ==
  LET kept == SelectFields(Split(text))
      parsed == [i \in 1..Len(kept) |-> ParseUsize(kept[i])]
  IN IF \E i \in 1..Len(kept) : ~parsed[i].ok
     THEN [panic |-> TRUE, counters |-> <<0, 0, 0, 0>>]
     ELSE IF Len(kept) # 4
          THEN [panic |-> FALSE, counters |-> <<0, 0, 0, 0>>]
          ELSE [panic |-> FALSE,
                counters |-> [i \in 1..4 |-> parsed[i].val]]

-----------------------------------------------------------------------------
\* State.  file is the content of the backing file, which outlives the
\* store; open tells whether a FileHandle exists; pos is the position of its
\* File; the four counters are its fields.  last records the latest call
\* (its arguments, the injected I/O outcome, num_pages before it and what it
\* returned) and buf the caller's buffer as that call left it.  flushed is
\* a history variable: the counters of the header text the store wrote last;
\* flushes counts the calls of write_counters.

VARIABLES file, open, pos, num_pages, read_count, write_count, append_count,
          last, buf, flushed, flushes

vars == <<file, open, pos, num_pages, read_count, write_count, append_count,
          last, buf, flushed, flushes>>

store == <<read_count, write_count, append_count, num_pages>>

Ok(v) == [ok |-> TRUE, val |-> v, err |-> "none"]
Err(e) == [ok |-> FALSE, val |-> 0, err |-> e]

Call(op, page_num, data, io, ret) ==
  [op |-> op, page_num |-> page_num, data |-> data, io |-> io,
   n |-> num_pages, ret |-> ret]

\* Page buffers the callers pass: a one-byte text padded with zeros, as the
\* tests build theirs, and a page holding one byte throughout.
PageBufs == { Cat(Run(CHAR_T, 1), Run(0, PAGE_SIZE - 1)),
              Run(CHAR_N, PAGE_SIZE) }

\* Contents of the caller's buffer handed to read_page: cleared, or not.
ReadBufs == { Empty, Run(1, 1) }

PageNums == 0..MaxPages

\* Mutant: the multiplication binds the 1 only, page_index + 1 * PAGE_SIZE.
offset_noparen(page_index) == page_index + 1 * PAGE_SIZE

\* Mutant: the header slot is not skipped.
offset_nohdr(page_index) == page_index * PAGE_SIZE

offset(page_index) == (page_index + 1) * PAGE_SIZE

Init ==
  /\ file = Empty
  /\ open = FALSE
  /\ pos = 0
  /\ num_pages = 0
  /\ read_count = 0
  /\ write_count = 0
  /\ append_count = 0
  /\ last = [op |-> "none", page_num |-> 0, data |-> Empty, io |-> "ok",
             n |-> 0, ret |-> Ok(0)]
  /\ buf = Empty
  /\ flushed = <<0, 0, 0, 0>>
  /\ flushes = 0

-----------------------------------------------------------------------------
\* Mutant: a fresh store counts the header slot as a page.
new_outcome_onepage(io) ==
  IF io = "metadata_err"
  THEN [ret |-> Err("Io"), file |-> file, pos |-> 0, counters |-> <<0, 0, 0, 0>>]
  ELSE IF Size(file) > 0
  THEN IF io = "read_err"
       THEN [ret |-> Err("Io"), file |-> file, pos |-> 0,
             counters |-> <<0, 0, 0, 0>>]
       ELSE IF ~IsUtf8(file)
       THEN [ret |-> Err("InvalidData"), file |-> file, pos |-> 0,
             counters |-> <<0, 0, 0, 0>>]
       ELSE LET h == ParseHeader(file)
            IN [ret |-> IF h.panic THEN Err("panic") ELSE Ok(0),
                file |-> file, pos |-> Size(file), counters |-> h.counters]
  ELSE IF io = "write_err"
       THEN [ret |-> Err("Io"), file |-> file, pos |-> 0,
             counters |-> <<0, 0, 0, 0>>]
       ELSE LET counters_str == FormatCounters(0, 0, 0, 0)
            IN [ret |-> Ok(0), file |-> FileWrite(file, 0, counters_str),
                pos |-> Size(counters_str), counters |-> <<0, 0, 0, 1>>]

\* FileHandle::new on a newly opened File (position 0).  The outcome: the
\* result, the file content and position afterwards, the counters loaded.
new_outcome(io) ==
  IF io = "metadata_err"
  THEN [ret |-> Err("Io"), file |-> file, pos |-> 0, counters |-> <<0, 0, 0, 0>>]
  ELSE IF Size(file) > 0
  THEN IF io = "read_err"
       THEN [ret |-> Err("Io"), file |-> file, pos |-> 0,
             counters |-> <<0, 0, 0, 0>>]
       ELSE IF ~IsUtf8(file)
       THEN [ret |-> Err("InvalidData"), file |-> file, pos |-> 0,
             counters |-> <<0, 0, 0, 0>>]
       ELSE LET h == ParseHeader(file)
            IN [ret |-> IF h.panic THEN Err("panic") ELSE Ok(0),
                file |-> file, pos |-> Size(file), counters |-> h.counters]
  ELSE IF io = "write_err"
       THEN [ret |-> Err("Io"), file |-> file, pos |-> 0,
             counters |-> <<0, 0, 0, 0>>]
       ELSE LET counters_str == FormatCounters(0, 0, 0, 0)
            IN [ret |-> Ok(0), file |-> FileWrite(file, 0, counters_str),
                pos |-> Size(counters_str), counters |-> <<0, 0, 0, 0>>]

new(io) ==
  /\ ~open
  /\ LET o == new_outcome(io)
     IN /\ file' = o.file
        /\ open' = o.ret.ok
        /\ pos' = IF o.ret.ok THEN o.pos ELSE 0
        /\ read_count' = o.counters[1]
        /\ write_count' = o.counters[2]
        /\ append_count' = o.counters[3]
        /\ num_pages' = o.counters[4]
        /\ last' = Call("new", 0, Empty, io, o.ret)
        /\ buf' = Empty
        /\ flushed' = IF o.ret.ok /\ Size(file) = 0
                      THEN <<0, 0, 0, 0>> ELSE flushed
        /\ UNCHANGED flushes

\* The store is dropped: the File is closed, the file stays.
drop ==
  /\ open
  /\ open' = FALSE
  /\ pos' = 0
  /\ num_pages' = 0
  /\ read_count' = 0
  /\ write_count' = 0
  /\ append_count' = 0
  /\ last' = Call("drop", 0, Empty, "ok", Ok(0))
  /\ buf' = Empty
  /\ UNCHANGED <<file, flushed, flushes>>

\* read_from: seek, read into a zeroed PAGE_SIZE array, put the whole array.
read_from(p, data, io) ==
  IF io = "seek_err"
  THEN [ret |-> Err("Io"), pos |-> pos, data |-> data]
  ELSE IF io = "read_err"
  THEN [ret |-> Err("Io"), pos |-> p, data |-> data]
  ELSE LET got == FileRead(file, p, PAGE_SIZE)
           bytes_read == Size(got)
           array == Cat(got, Run(0, PAGE_SIZE - bytes_read))
       IN [ret |-> Ok(bytes_read), pos |-> p + bytes_read,
           data |-> Cat(data, array)]

\* Mutant: the bound is checked with > in place of >=.
read_page_outcome_inclusive(page_num, data, io) ==
  IF page_num > num_pages
  THEN [ret |-> Err("InvalidInput"), pos |-> pos, data |-> data]
  ELSE read_from(offset(page_num), data, io)

read_page_outcome(page_num, data, io) ==
  IF page_num >= num_pages
  THEN [ret |-> Err("InvalidInput"), pos |-> pos, data |-> data]
  ELSE read_from(offset(page_num), data, io)

read_page(page_num, data, io) ==
  /\ open
  /\ LET o == read_page_outcome(page_num, data, io)
     IN /\ pos' = o.pos
        /\ buf' = o.data
        /\ last' = Call("read_page", page_num, data, io, o.ret)
  /\ UNCHANGED <<file, open, store, flushed, flushes>>

\* Mutant: the write goes to the position the File is at, without a seek.
write_to_noseek(p, data, io) ==
  IF io = "seek_err"
  THEN [ret |-> Err("Io"), pos |-> pos, file |-> file]
  ELSE IF io = "write_err"
  THEN [ret |-> Err("Io"), pos |-> pos, file |-> file]
  ELSE [ret |-> Ok(Size(data)), pos |-> pos + Size(data),
        file |-> FileWrite(file, pos, data)]

\* write_to: seek, then File::write of the whole buffer.
write_to(p, data, io) ==
  IF io = "seek_err"
  THEN [ret |-> Err("Io"), pos |-> pos, file |-> file]
  ELSE IF io = "write_err"
  THEN [ret |-> Err("Io"), pos |-> p, file |-> file]
  ELSE [ret |-> Ok(Size(data)), pos |-> p + Size(data),
        file |-> FileWrite(file, p, data)]

\* Mutant: the seek comes before the bounds check.
write_page_outcome_seekfirst(page_num, data, io) ==
  IF page_num >= num_pages
  THEN [ret |-> Err("InvalidInput"),
        pos |-> IF io = "seek_err" THEN pos ELSE offset(page_num),
        file |-> file]
  ELSE write_to(offset(page_num), data, io)

write_page_outcome(page_num, data, io) ==
  IF page_num >= num_pages
  THEN [ret |-> Err("InvalidInput"), pos |-> pos, file |-> file]
  ELSE write_to(offset(page_num), data, io)

\* Mutant: write_count is not updated.
write_page_nocount(page_num, data, io) ==
  /\ open
  /\ write_count < MaxCount
  /\ LET o == write_page_outcome(page_num, data, io)
     IN /\ file' = o.file
        /\ pos' = o.pos
        /\ last' = Call("write_page", page_num, data, io, o.ret)
  /\ buf' = data
  /\ UNCHANGED <<open, store, flushed, flushes>>

write_page(page_num, data, io) ==
  /\ open
  /\ write_count < MaxCount
  /\ LET o == write_page_outcome(page_num, data, io)
     IN /\ file' = o.file
        /\ pos' = o.pos
        /\ write_count' = IF o.ret.ok THEN write_count + 1 ELSE write_count
        /\ last' = Call("write_page", page_num, data, io, o.ret)
  /\ buf' = data
  /\ UNCHANGED <<open, num_pages, read_count, append_count, flushed, flushes>>

\* Mutant: num_pages is not incremented.
append_page_nogrow(data, io) ==
  /\ open
  /\ num_pages < MaxPages
  /\ append_count < MaxPages
  /\ LET o == write_to(offset(num_pages), data, io)
     IN /\ file' = o.file
        /\ pos' = o.pos
        /\ num_pages' = num_pages
        /\ append_count' = IF o.ret.ok THEN append_count + 1 ELSE append_count
        /\ last' = Call("append_page", 0, data, io, o.ret)
  /\ buf' = data
  /\ UNCHANGED <<open, read_count, write_count, flushed, flushes>>

\* Mutant: the increments come before the write, whatever its outcome.
append_page_countfirst(data, io) ==
  /\ open
  /\ num_pages < MaxPages
  /\ LET o == write_to(offset(num_pages), data, io)
     IN /\ file' = o.file
        /\ pos' = o.pos
        /\ num_pages' = num_pages + 1
        /\ append_count' = append_count + 1
        /\ last' = Call("append_page", 0, data, io, o.ret)
  /\ buf' = data
  /\ UNCHANGED <<open, read_count, write_count, flushed, flushes>>

\* Mutant: the offset is computed from num_pages after the increment.
append_page_preinc(data, io) ==
  /\ open
  /\ num_pages < MaxPages
  /\ LET o == write_to(offset(num_pages + 1), data, io)
     IN /\ file' = o.file
        /\ pos' = o.pos
        /\ num_pages' = IF o.ret.ok THEN num_pages + 1 ELSE num_pages
        /\ append_count' = IF o.ret.ok THEN append_count + 1 ELSE append_count
        /\ last' = Call("append_page", 0, data, io, o.ret)
  /\ buf' = data
  /\ UNCHANGED <<open, read_count, write_count, flushed, flushes>>

append_page(data, io) ==
  /\ open
  /\ num_pages < MaxPages
  /\ LET o == write_to(offset(num_pages), data, io)
     IN /\ file' = o.file
        /\ pos' = o.pos
        /\ num_pages' = IF o.ret.ok THEN num_pages + 1 ELSE num_pages
        /\ append_count' = IF o.ret.ok THEN append_count + 1 ELSE append_count
        /\ last' = Call("append_page", 0, data, io, o.ret)
  /\ buf' = data
  /\ UNCHANGED <<open, read_count, write_count, flushed, flushes>>

get_num_pages ==
  /\ open
  /\ last' = Call("get_num_pages", 0, Empty, "ok", Ok(num_pages))
  /\ buf' = Empty
  /\ UNCHANGED <<file, open, pos, store, flushed, flushes>>

Next ==
  \/ \E io \in {"ok", "metadata_err", "read_err", "write_err"} : new(io)
  \/ drop
  \/ \E i \in PageNums, d \in ReadBufs, io \in {"ok", "seek_err", "read_err"} :
       read_page(i, d, io)
  \/ \E i \in PageNums, d \in PageBufs, io \in {"ok", "seek_err", "write_err"} :
       write_page(i, d, io)
  \/ \E d \in PageBufs, io \in {"ok", "seek_err", "write_err"} :
       append_page(d, io)
  \/ get_num_pages

Spec == Init /\ [][Next]_vars

-----------------------------------------------------------------------------
\* write_counters: the header text of the current counters, written with
\* File::write at the position the File is at.  The code never calls it;
\* SpecFlush is the store with a flush allowed between any two calls.
write_counters(io) ==
  /\ open
  /\ LET counters_str ==
           FormatCounters(read_count, write_count, append_count, num_pages)
     IN /\ flushes < MaxFlush
        /\ flushes' = flushes + 1
        /\ IF io = "write_err"
           THEN /\ last' = Call("write_counters", 0, Empty, io, Err("Io"))
                /\ UNCHANGED <<file, pos, flushed>>
           ELSE /\ file' = FileWrite(file, pos, counters_str)
                /\ pos' = pos + Size(counters_str)
                /\ flushed' = store
                /\ last' = Call("write_counters", 0, Empty, io,
                                Ok(Size(counters_str)))
  /\ buf' = Empty
  /\ UNCHANGED <<open, store>>

NextFlush ==
  \/ Next
  \/ \E io \in {"ok", "write_err"} : write_counters(io)

SpecFlush == Init /\ [][NextFlush]_vars

-----------------------------------------------------------------------------
\* Properties.

\* The bytes a read of logical page i transfers from file content f.
PageAt(f, i) == FileRead(f, offset(i), PAGE_SIZE)

\* The reserved header slot of file content f.
HeaderSlot(f) == Slice(f, 0, PAGE_SIZE)

\* Whole page-sized slots present in the file after the header slot.
PhysicalPages ==
  IF Size(file) <= PAGE_SIZE THEN 0 ELSE (Size(file) - PAGE_SIZE) \div PAGE_SIZE

\* What read_page(i, buf) on a cleared buffer gives in the current state when
\* the I/O does not fail.
ReadBack(i) == read_page_outcome(i, Empty, "ok")

ReadOrWrite == {"read_page", "write_page"}

\* C1: with num_pages = n and no I/O failure, read_page(i, _) and
\* write_page(i, _) succeed exactly when i < n, and fail with the
\* out-of-bounds error otherwise (so for i = n, and not for i = n - 1).
C1_Bounds ==
  (last.op \in ReadOrWrite /\ last.io = "ok") =>
    /\ last.ret.ok <=> last.page_num < last.n
    /\ ~last.ret.ok => last.ret.err = "InvalidInput"

C1_Witness ==
  /\ last.op = "write_page"
  /\ last.io = "ok"
  /\ last.n = MaxPages
  /\ last.page_num = last.n - 1
  /\ last.ret.ok

\* C2: after a successful append_page(data) of a PAGE_SIZE buffer on a store
\* with num_pages = n, num_pages is n + 1, the call returned PAGE_SIZE, and
\* read_page(n, buf) on a cleared buffer returns PAGE_SIZE with buf = data.
C2_AppendGrowth ==
  (last.op = "append_page" /\ last.ret.ok /\ Size(last.data) = PAGE_SIZE) =>
    /\ num_pages = last.n + 1
    /\ last.ret.val = PAGE_SIZE
    /\ ReadBack(last.n).ret = Ok(PAGE_SIZE)
    /\ ReadBack(last.n).data = last.data

C2_Witness ==
  /\ last.op = "append_page"
  /\ last.ret.ok
  /\ last.n = 1
  /\ PageAt(file, 0) # PageAt(file, 1)

\* The page a successful write_page of a PAGE_SIZE buffer has just written
\* reads back, on a cleared buffer, as PAGE_SIZE bytes equal to the buffer.
WrittenReadsBack ==
  (last.op = "write_page" /\ last.ret.ok /\ Size(last.data) = PAGE_SIZE) =>
    /\ last.ret.val = PAGE_SIZE
    /\ ReadBack(last.page_num).ret = Ok(PAGE_SIZE)
    /\ ReadBack(last.page_num).data = last.data

\* C3: after a successful write_page(i, B) of a PAGE_SIZE buffer to a valid
\* index, read_page(i, buf) on a cleared buffer returns PAGE_SIZE with
\* buf = B, whatever page i held before; and no call of the store other than
\* a write_page to i changes what a read of a valid page i transfers or
\* makes i invalid.
C3_WriteRoundTrip ==
  [][ /\ WrittenReadsBack
      /\ \A i \in PageNums :
           (open /\ open' /\ i < num_pages
              /\ ~(last'.op = "write_page" /\ last'.page_num = i))
             => /\ i < num_pages'
                /\ (file' = file \/ PageAt(file', i) = PageAt(file, i)) ]_vars

C3_Witness ==
  /\ last.op = "write_page"
  /\ last.ret.ok
  /\ last.n = 2
  /\ last.page_num = 1
  /\ write_count = 2
  /\ PageAt(file, 1) = last.data
  /\ PageAt(file, 0) # last.data

\* C4: whenever a store is open, num_pages equals the number of page-sized
\* data slots present in the file after the header slot.
C4_NumPagesMatchesFile == open => num_pages = PhysicalPages

\* C5: a successful append_page adds exactly 1 to append_count, a successful
\* write_page adds exactly 1 to write_count, and no call on a store lowers
\* read_count, write_count or append_count.
C5_Counters ==
  [][ /\ (last'.op = "append_page" /\ last'.ret.ok)
           => append_count' = append_count + 1
      /\ (last'.op = "write_page" /\ last'.ret.ok)
           => write_count' = write_count + 1
      /\ (open /\ open')
           => /\ read_count' >= read_count
              /\ write_count' >= write_count
              /\ append_count' >= append_count ]_vars

C5_Witness ==
  /\ last.op = "write_page"
  /\ last.ret.ok
  /\ write_count = 2
  /\ append_count = 2

\* C6: a store opened on a file whose header was flushed with counters
\* (r, w, a, n) reports exactly (r, w, a, n).
C6_HeaderRoundTrip ==
  (last.op = "new" /\ last.ret.ok) => store = flushed

\* C7: every successful read_page adds exactly 1 to read_count.
C7_ReadCounted ==
  [][ (last'.op = "read_page" /\ last'.ret.ok)
        => read_count' = read_count + 1 ]_vars

\* C8: a successful write_page(i, B) of a PAGE_SIZE buffer leaves num_pages,
\* the header slot and every other data page j # i, j < num_pages, as they
\* were: page j stays readable and a read of it transfers the same bytes
\* after the write as before.
C8_WriteFrame ==
  [][ (last'.op = "write_page" /\ last'.ret.ok
         /\ Size(last'.data) = PAGE_SIZE)
        => /\ num_pages' = num_pages
           /\ HeaderSlot(file') = HeaderSlot(file)
           /\ \A j \in PageNums :
                (j # last'.page_num /\ j < num_pages)
                  => /\ j < num_pages'
                     /\ PageAt(file', j) = PageAt(file, j) ]_vars

C8_Witness ==
  /\ last.op = "write_page"
  /\ last.ret.ok
  /\ last.n = 2
  /\ last.page_num = 0
  /\ PageAt(file, 0) = last.data
  /\ PageAt(file, 1) # last.data

\* C9: a read_page or write_page with index >= num_pages returns the
\* out-of-bounds error and does no I/O: the file, the file position,
\* num_pages, the three counters and the caller's buffer stay as they were.
C9_OutOfBoundsNoIO ==
  [][ (last'.op \in ReadOrWrite /\ last'.page_num >= num_pages)
        => /\ last'.ret = Err("InvalidInput")
           /\ file' = file
           /\ pos' = pos
           /\ store' = store
           /\ buf' = last'.data ]_vars

C9_Witness ==
  /\ last.op = "read_page"
  /\ last.n = 2
  /\ last.page_num >= last.n
  /\ last.data # Empty
  /\ last.ret = Err("InvalidInput")
  /\ pos = offset(1)

\* C10: opening an empty file leaves the header 0|0|0|0 at offset 0 and a
\* store whose three counters and num_pages are 0, on which read_page(0, _)
\* and write_page(0, _) fail out-of-bounds; num_pages stays 0 until an
\* append succeeds.
C10_OpenEmpty ==
  [][ /\ (last'.op = "new" /\ last'.io = "ok" /\ Size(file) = 0)
           => /\ last'.ret.ok
              /\ open'
              /\ file' = FormatCounters(0, 0, 0, 0)
              /\ store' = <<0, 0, 0, 0>>
              /\ ReadBack(0)'.ret = Err("InvalidInput")
              /\ \A d \in PageBufs :
                   write_page_outcome(0, d, "ok")'.ret = Err("InvalidInput")
      /\ (open /\ open' /\ num_pages = 0
            /\ ~(last'.op = "append_page" /\ last'.ret.ok))
           => num_pages' = 0 ]_vars

C10_Witness ==
  /\ last.op = "new"
  /\ last.ret.ok
  /\ open
  /\ file = FormatCounters(0, 0, 0, 0)
  /\ pos = Size(file)

\* C11: a successful write_counters leaves the text
\* read_count|write_count|append_count|num_pages at file offset 0 and
\* changes no byte of a data page, wherever the file position was.
C11_FlushAtStart ==
  [][ (last'.op = "write_counters" /\ last'.ret.ok)
        => /\ Take(file', last'.ret.val)
                = FormatCounters(read_count, write_count, append_count,
                                 num_pages)
           /\ \A j \in PageNums :
                j < num_pages => PageAt(file', j) = PageAt(file, j) ]_vars

-----------------------------------------------------------------------------
\* Opening files that exist already.  SpecOpen starts from a file holding a
\* header text of 3 to 5 fields and opens, reads and drops it.

\* Header fields: "0", "1", " 2\n", "x", "0x".
FieldTexts ==
  { FromBytes(<<CHAR_0>>), FromBytes(<<CHAR_0 + 1>>),
    FromBytes(<<32, CHAR_0 + 2, 10>>), FromBytes(<<120>>),
    FromBytes(<<CHAR_0, 120>>) }

FieldCounts == 3..5

RECURSIVE Join(_)
Join(fs) ==
  IF Len(fs) = 1 THEN fs[1]
  ELSE Cat(Cat(fs[1], Run(PIPE, 1)), Join(Tail(fs)))

HeaderFiles ==
  { Join(fs) : fs \in UNION { [1..k -> FieldTexts] : k \in FieldCounts } }

InitOpen ==
  /\ file \in HeaderFiles
  /\ open = FALSE
  /\ pos = 0
  /\ num_pages = 0
  /\ read_count = 0
  /\ write_count = 0
  /\ append_count = 0
  /\ last = [op |-> "none", page_num |-> 0, data |-> Empty, io |-> "ok",
             n |-> 0, ret |-> Ok(0)]
  /\ buf = Empty
  /\ flushed = <<0, 0, 0, 0>>
  /\ flushes = 0

NextOpen ==
  \/ \E io \in {"ok", "metadata_err", "read_err"} : new(io)
  \/ drop
  \/ \E i \in PageNums, d \in ReadBufs, io \in {"ok", "seek_err", "read_err"} :
       read_page(i, d, io)
  \/ get_num_pages

SpecOpen == InitOpen /\ [][NextOpen]_vars

\* The fields new() keeps of header text f, and whether each parses.
KeptFields(f) == SelectFields(Split(f))

AllKeptParse(f) ==
  \A i \in 1..Len(KeptFields(f)) : ParseUsize(KeptFields(f)[i]).ok

\* A field of f that is present (not empty once trimmed) and no number.
HasMalformedField(f) ==
  \E i \in 1..Len(Split(f)) :
    /\ Trim(Split(f)[i]) # Empty
    /\ ~ParseUsize(Trim(Split(f)[i])).ok

OpensNonEmpty == last'.op = "new" /\ last'.io = "ok" /\ Size(file) > 0

\* C12 as stated: opening a non-empty file whose header does not parse into
\* exactly 4 values never fails and gives all-zero counters and num_pages.
C12_MangledHeaderOpens ==
  [][ (OpensNonEmpty /\ ~(AllKeptParse(file) /\ Len(KeptFields(file)) = 4))
        => (last'.ret.ok /\ open' /\ store' = <<0, 0, 0, 0>>) ]_vars

\* C12 amended: opening a non-empty, valid UTF-8 file whose kept header
\* fields all parse, but are not exactly 4, never fails and gives all-zero
\* counters and num_pages.
C12_WrongCountOpens ==
  [][ (OpensNonEmpty /\ IsUtf8(file) /\ AllKeptParse(file)
         /\ Len(KeptFields(file)) # 4)
        => (last'.ret.ok /\ open' /\ store' = <<0, 0, 0, 0>>) ]_vars

C12_Witness ==
  /\ last.op = "new"
  /\ last.ret.ok
  /\ open
  /\ AllKeptParse(file)
  /\ Len(KeptFields(file)) = 5
  /\ store = <<0, 0, 0, 0>>

\* C13: opening a file whose header has a present field that is no number
\* is fatal, no store is produced, also when the field begins with '0'.
C13_MalformedFieldFatal ==
  [][ (OpensNonEmpty /\ HasMalformedField(file))
        => (~last'.ret.ok /\ ~open') ]_vars

-----------------------------------------------------------------------------
\* Page allocation and page ranges, under Spec.

PageOps == {"read_page", "write_page", "append_page"}

\* C14: on a store, num_pages changes only in a successful append_page, by
\* exactly +1; the k-th successful append of a store that started with no
\* pages is written at file offset k * PAGE_SIZE, the offset of num_pages
\* before the increment; read_page, write_page and get_num_pages leave
\* num_pages as it was; append_page never fails with the out-of-bounds error.
C14_OnlyAppendGrows ==
  [][ (open /\ open') =>
        /\ num_pages' # num_pages
             => /\ last'.op = "append_page"
                /\ last'.ret.ok
                /\ num_pages' = num_pages + 1
        /\ (last'.op = "append_page" /\ last'.ret.ok)
             => /\ num_pages' = num_pages + 1
                /\ append_count' = num_pages'
                /\ Slice(file', append_count' * PAGE_SIZE, PAGE_SIZE)
                     = last'.data
                /\ pos' = append_count' * PAGE_SIZE + Size(last'.data)
        /\ (last'.op = "append_page" /\ ~last'.ret.ok)
             => last'.ret.err # "InvalidInput"
        /\ last'.op \in {"read_page", "write_page", "get_num_pages"}
             => num_pages' = num_pages ]_vars

C14_Witness ==
  /\ last.op = "append_page"
  /\ last.ret.ok
  /\ last.n = 1
  /\ num_pages = 2
  /\ append_count = 2
  /\ Slice(file, 2 * PAGE_SIZE, PAGE_SIZE) = last.data
  /\ Slice(file, PAGE_SIZE, PAGE_SIZE) # last.data

\* After a failed append_page the index num_pages had before the call is
\* still out of bounds for read_page and write_page.
FailedAppendKeepsBound ==
  (last.op = "append_page" /\ ~last.ret.ok) =>
    /\ num_pages = last.n
    /\ ReadBack(last.n).ret = Err("InvalidInput")
    /\ write_page_outcome(last.n, last.data, "ok").ret = Err("InvalidInput")

\* C16: when the seek or the write fails in write_page (on a valid index) or
\* in append_page, the call returns the I/O error and num_pages, write_count
\* and append_count are as before the call; after a failed append the index
\* num_pages is still invalid.
C16_FailedWriteKeepsCounters ==
  [][ /\ FailedAppendKeepsBound
      /\ ( /\ last'.op \in {"write_page", "append_page"}
           /\ last'.io \in {"seek_err", "write_err"}
           /\ (last'.op = "write_page" => last'.page_num < num_pages) )
           => /\ last'.ret = Err("Io")
              /\ num_pages' = num_pages
              /\ write_count' = write_count
              /\ append_count' = append_count ]_vars

C16_Witness ==
  /\ last.op = "append_page"
  /\ last.io = "write_err"
  /\ last.ret = Err("Io")
  /\ last.n = 1
  /\ num_pages = 1
  /\ append_count = 1

\* The logical page a page operation in the step is about.
TouchedPage == IF last'.op = "append_page" THEN num_pages ELSE last'.page_num

\* C18: with PAGE_SIZE buffers, a page operation on logical page i touches
\* only the bytes [(i + 1) * PAGE_SIZE, (i + 2) * PAGE_SIZE): a write changes
\* no byte outside them (the header slot and the ranges of the other pages
\* stay as they were, the header only being padded with zeros up to the
\* first page), a read transfers exactly them, and the position of the File
\* stays within them.
C18_PageRanges ==
  [][ (open /\ last'.op \in PageOps) =>
        LET lo == (TouchedPage + 1) * PAGE_SIZE
            hi == (TouchedPage + 2) * PAGE_SIZE
        IN /\ (file' = file \/ Take(file', Size(HeaderSlot(file))) = HeaderSlot(file))
           /\ file' # file
                => /\ last'.op # "read_page"
                   /\ last'.ret.ok
                   /\ Take(file', lo)
                        = Cat(Take(file, lo), Run(0, lo - Size(Take(file, lo))))
                   /\ Slice(file', lo, PAGE_SIZE) = last'.data
                   /\ Drop(file', hi) = Drop(file, hi)
                   /\ \A j \in PageNums :
                        j # TouchedPage
                          => Slice(file', (j + 1) * PAGE_SIZE, PAGE_SIZE)
                               = Slice(file, (j + 1) * PAGE_SIZE, PAGE_SIZE)
           /\ (last'.op = "read_page" /\ last'.ret.ok)
                => buf' = Cat(last'.data, Slice(file, lo, PAGE_SIZE))
           /\ pos' # pos => (pos' >= lo /\ pos' <= hi) ]_vars

C18_Witness ==
  /\ last.op = "write_page"
  /\ last.ret.ok
  /\ last.page_num = 0
  /\ last.n = 2
  /\ Slice(file, PAGE_SIZE, PAGE_SIZE) = last.data
  /\ Slice(file, 2 * PAGE_SIZE, PAGE_SIZE) # last.data
  /\ Take(file, Size(FormatCounters(0, 0, 0, 0))) = FormatCounters(0, 0, 0, 0)

-----------------------------------------------------------------------------
\* Buffers of any length.  write_to hands the caller's buffer to File::write
\* whatever its length, so SpecAnyLen is the store called with buffers
\* shorter and longer than a page as well.
OddBufs == { Run(CHAR_T, 2), Run(CHAR_N, PAGE_SIZE + 1) }

AnyBufs == { Run(CHAR_N, PAGE_SIZE) } \cup OddBufs

NextAnyLen ==
  \/ \E io \in {"ok", "metadata_err", "read_err", "write_err"} : new(io)
  \/ drop
  \/ \E i \in PageNums, d \in ReadBufs, io \in {"ok", "seek_err", "read_err"} :
       read_page(i, d, io)
  \/ \E i \in PageNums, d \in AnyBufs, io \in {"ok", "seek_err", "write_err"} :
       write_page(i, d, io)
  \/ \E d \in AnyBufs, io \in {"ok", "seek_err", "write_err"} :
       append_page(d, io)
  \/ get_num_pages

SpecAnyLen == Init /\ [][NextAnyLen]_vars

\* C15: write_page (on a valid index) and append_page called with a buffer
\* whose length is not PAGE_SIZE fail with InvalidArgument and leave the
\* file, num_pages and the counters as they were.
C15_BadLengthRejected ==
  [][ ( /\ last'.op \in {"write_page", "append_page"}
        /\ Size(last'.data) # PAGE_SIZE
        /\ last'.io = "ok"
        /\ (last'.op = "write_page" => last'.page_num < num_pages) )
        => /\ last'.ret = Err("InvalidArgument")
           /\ file' = file
           /\ store' = store ]_vars

\* C17: a successful read_page(i, buf) keeps the prior contents of buf as a
\* prefix and appends exactly the bytes transferred from the file, so buf
\* grows by the returned count, also when the read is short.
C17_ReadAppendsTransferred ==
  [][ (last'.op = "read_page" /\ last'.ret.ok) =>
        /\ Take(buf', Size(last'.data)) = last'.data
        /\ Drop(buf', Size(last'.data))
             = FileRead(file, (last'.page_num + 1) * PAGE_SIZE, PAGE_SIZE)
        /\ Size(buf') - Size(last'.data) = last'.ret.val ]_vars

=============================================================================
